---------------------------- MODULE Spec2Model ----------------------------
(***************************************************************************)
(* minewt: newtypes for TypeScript.                                        *)
(*                                                                         *)
(* The library is one interface (Newtype), one conditional type            *)
(* (NewtypeRepr) and four run-time functions (newtype, unwrap, liftN,      *)
(* liftN2).  Three revisions of the file are modelled; the variable rev    *)
(* says which one a behaviour runs:                                        *)
(*   "Newtypes"  src/src/Newtypes.ts   wrapper function, free unwrap       *)
(*   "part_000"  src/unnamed/part_000  wrapper object {unwrap, wrap}       *)
(*   "part_001"  src/unnamed/part_001  as Newtypes.ts, the interface also  *)
(*                                     carries  readonly _phantom: _T      *)
(*                                                                         *)
(* Two specifications share the variables.  Spec runs programs that use    *)
(* the run-time functions on a heap of objects; TypeSpec asks the type     *)
(* checker assignability and NewtypeRepr questions about declared types.   *)
(***************************************************************************)
EXTENDS Integers, Sequences, FiniteSets, TLC

VARIABLES
    rev,      \* the revision of the library the program is compiled against
    rep,      \* the representation type R of the program's newtype D
    conv,     \* the value of  const D = newtype<D>()  ("absent" before the call)
    heap,     \* the objects allocated so far; a reference is an index into it
    slots,    \* the program's values, each with its static type and its origin
    pre,      \* the heap as it was before the last operation
    exc,      \* TRUE once an operation of the library has thrown
    ncalls,   \* how many calls of wrap, unwrap and lifted functions were made
    tq        \* the last question put to the type checker, with its answer

vars == <<rev, rep, conv, heap, slots, pre, exc, ncalls, tq>>

(***************************************************************************)
(* Bounds of the model.                                                    *)
(***************************************************************************)
\* the numbers a program starts with are 0 .. MaxInput
MaxInput == 3
\* a program holds at most MaxSlots values (two inputs and the results)
MaxSlots == 5
\* the unique-symbol tags a program declares are Tag(1) .. Tag(MaxTags)
MaxTags == 3

Revs == {"Newtypes", "part_000", "part_001"}

(***************************************************************************)
(* Types, as the type checker holds them.                                  *)
(*   k  "any" | "unknown" | "never" | "prim" | "usym" | "obj"              *)
(*   n  the name of a primitive or of a unique symbol                      *)
(*   a  the type arguments when the type is a reference to a generic       *)
(*      interface (<<T, N>> for Newtype<T, N>), else <<>>                  *)
(*   p  the required properties of an object type: key -> type             *)
(***************************************************************************)
NoProps == [key \in {} |-> 0]

TAny == [k |-> "any", n |-> "any", a |-> <<>>, p |-> NoProps]

TUnknown == [k |-> "unknown", n |-> "unknown", a |-> <<>>, p |-> NoProps]

TNever == [k |-> "never", n |-> "never", a |-> <<>>, p |-> NoProps]

TPrim(name) == [k |-> "prim", n |-> name, a |-> <<>>, p |-> NoProps]

\* each occurrence of  unique symbol  in a declaration is a type of its own
TUniqueSymbol(id) == [k |-> "usym", n |-> id, a |-> <<>>, p |-> NoProps]

TObj(args, props) == [k |-> "obj", n |-> "object", a |-> args, p |-> props]

\* literal, enum and unique-symbol types are the checker's unit types
IsUnit(T) == T.k = "usym"

\* the key of the interface's tag property:  [newtypeSymbol]
newtypeSymbol == "[newtypeSymbol]"

\* faulty variants of the interface, against which the properties are tried:
\* one that leaves the tag property out, one that is a plain alias of _T
NewtypeNoTag(r, T, N) ==
    TObj(<<T, N>>, IF r = "part_001" THEN ("_phantom" :> T) ELSE NoProps)

NewtypeAlias(r, T, N) == T

\* export interface Newtype<_T, N> { readonly [newtypeSymbol]: N; }
\* part_001 adds  readonly _phantom: _T
Newtype(r, T, N) ==
    TObj(<<T, N>>,
         IF r = "part_001"
         THEN (newtypeSymbol :> N) @@ ("_phantom" :> T)
         ELSE (newtypeSymbol :> N))

\* the documented form of a tag:  { readonly _: unique symbol; }
Tag(i) == TObj(<<>>, ("_" :> TUniqueSymbol(ToString(i))))

\* the constraint of the type parameter N:  Newtype<any, any>, and
\* Newtype<unknown, unknown> in part_001
Top(r) == IF r = "part_001" THEN TUnknown ELSE TAny

(***************************************************************************)
(* Assignability of S to T under the checker's structural rules, for the   *)
(* types above: any goes to everything but never, everything goes to any   *)
(* and unknown, never goes to everything; a primitive or a unique symbol   *)
(* goes to itself and to {}; an object type goes to an object type when it *)
(* has every property of the target at an assignable type (readonly plays  *)
(* no part).                                                               *)
(***************************************************************************)
RECURSIVE Assignable(_, _)
Assignable(S, T) ==
    IF S.k = "any" THEN T.k # "never"
    ELSE IF T.k \in {"any", "unknown"} THEN TRUE
    ELSE IF S.k = "never" THEN TRUE
    ELSE IF T.k = "never" \/ S.k = "unknown" THEN FALSE
    ELSE IF T.k = "obj"
         THEN IF S.k = "obj"
              THEN \A key \in DOMAIN T.p :
                      /\ key \in DOMAIN S.p
                      /\ Assignable(S.p[key], T.p[key])
              ELSE DOMAIN T.p = {}
    ELSE S.k = T.k /\ S.n = T.n

(***************************************************************************)
(* The intersection A & B of two types of the model.  Two object types     *)
(* merge their properties; a property both have gets the intersection of   *)
(* its two types.  An intersection of object types reduces to never when a *)
(* property they share has unit types on both sides that do not meet.      *)
(***************************************************************************)
RECURSIVE Intersect(_, _)
Intersect(A, B) ==
    IF A = B THEN A
    ELSE IF A.k = "never" \/ B.k = "never" THEN TNever
    ELSE IF A.k = "any" \/ B.k = "any" THEN TAny
    ELSE IF A.k = "unknown" THEN B
    ELSE IF B.k = "unknown" THEN A
    ELSE IF A.k = "obj" /\ B.k = "obj"
         THEN LET both == DOMAIN A.p \cap DOMAIN B.p
                  keys == DOMAIN A.p \cup DOMAIN B.p
                  pt(key) == IF key \in both THEN Intersect(A.p[key], B.p[key])
                             ELSE IF key \in DOMAIN A.p THEN A.p[key]
                             ELSE B.p[key]
              IN  IF \E key \in both :
                         /\ IsUnit(A.p[key]) /\ IsUnit(B.p[key])
                         /\ pt(key).k = "never"
                  THEN TNever
                  ELSE TObj(<<>>, [key \in keys |-> pt(key)])
    ELSE TNever

(***************************************************************************)
(* export type NewtypeRepr<N extends Newtype<any, any>> =                  *)
(*     N extends Newtype<infer T, any> ? T : never;                        *)
(* The conditional distributes over N, so never gives never.  T is         *)
(* inferred from the type arguments when N is a reference to Newtype and   *)
(* has no candidate otherwise (unknown).                                   *)
(***************************************************************************)
\* faulty variant: infers the second type argument
NewtypeReprArg2(r, N) ==
    IF N.k = "obj" /\ Len(N.a) = 2 THEN N.a[2] ELSE TNever

NewtypeRepr(r, N) ==
    IF N.k = "never" THEN TNever
    ELSE LET T == IF N.k = "obj" /\ Len(N.a) = 2 THEN N.a[1] ELSE TUnknown
         IN  IF Assignable(N, Newtype(r, T, Top(r))) THEN T ELSE TNever

\* N extends Newtype<any, any>: whether N may be given as the type argument
SatisfiesConstraint(r, N) == Assignable(N, Newtype(r, Top(r), Top(r)))

(***************************************************************************)
(* Type expressions, as a program writes them.                             *)
(*   [e |-> "rep", r |-> name]              a type that is not a newtype   *)
(*   [e |-> "newtype", r |-> R, u |-> i]    Newtype<R, Tag_i>              *)
(*   [e |-> "ext", u |-> i, b |-> A]        Newtype<R, Tag_i> & A, with R  *)
(*                                          the representation of A        *)
(***************************************************************************)
RepNames == {"number", "string", "any", "unknown", "never", "{}", "{n}"}

RepType(name) ==
    CASE name = "any" -> TAny
      [] name = "unknown" -> TUnknown
      [] name = "never" -> TNever
      [] name = "{}" -> TObj(<<>>, NoProps)
      [] name = "{n}" -> TObj(<<>>, ("n" :> TPrim("number")))
      [] OTHER -> TPrim(name)

RepE(name) == [e |-> "rep", r |-> name]

NewtypeE(R, i) == [e |-> "newtype", r |-> R, u |-> i]

ExtE(i, A) == [e |-> "ext", u |-> i, b |-> A]

Tags == 1 .. MaxTags

RepExprs == {RepE(name) : name \in RepNames}

\* newtypes over a plain representation, and over the newtype of number
FlatNewtypes == {NewtypeE(R, i) : R \in RepExprs, i \in Tags}

NestedNewtypes == {NewtypeE(NewtypeE(RepE("number"), j), i) : j \in Tags, i \in Tags}

NewtypeExprs == FlatNewtypes \cup NestedNewtypes

\* type B = Newtype<R, Tag_i> & A
ExtExprs == {ExtE(i, A) : i \in Tags, A \in FlatNewtypes}

TypeExprs == RepExprs \cup NewtypeExprs \cup ExtExprs

RECURSIVE Eval(_, _)
Eval(r, x) ==
    CASE x.e = "rep" -> RepType(x.r)
      [] x.e = "newtype" -> Newtype(r, Eval(r, x.r), Tag(x.u))
      [] x.e = "ext" -> Intersect(Newtype(r, Eval(r, x.b.r), Tag(x.u)), Eval(r, x.b))

NoQuery == [kind |-> "none", src |-> RepE("never"), dst |-> RepE("never"),
            ok |-> FALSE, res |-> TNever]

(***************************************************************************)
(* The type checker's steps: a run checks one statement of the program,   *)
(* drawn from the type expressions above.                                  *)
(***************************************************************************)
\* const x: t = <a value of type s>;
Assign ==
    /\ tq.kind = "none"
    /\ \E s \in TypeExprs, t \in TypeExprs :
          tq' = [kind |-> "assign", src |-> s, dst |-> t,
                 ok |-> Assignable(Eval(rev, s), Eval(rev, t)), res |-> TNever]
    /\ UNCHANGED <<rev, rep, conv, heap, slots, pre, exc, ncalls>>

\* type T = NewtypeRepr<s>;  ok says whether s satisfies the constraint.
\* (what the checker infers from the check type any is left out)
ReprQuery ==
    /\ tq.kind = "none"
    /\ \E s \in (RepExprs \cup NewtypeExprs) \ {RepE("any")} :
          tq' = [kind |-> "repr", src |-> s, dst |-> s,
                 ok |-> SatisfiesConstraint(rev, Eval(rev, s)),
                 res |-> NewtypeRepr(rev, Eval(rev, s))]
    /\ UNCHANGED <<rev, rep, conv, heap, slots, pre, exc, ncalls>>

TypeInit ==
    /\ rev \in Revs
    /\ rep = "number"
    /\ conv = "absent"
    /\ heap = <<>>
    /\ slots = <<>>
    /\ pre = <<>>
    /\ exc = FALSE
    /\ ncalls = 0
    /\ tq = NoQuery

TypeNext == Assign \/ ReprQuery

TypeSpec == TypeInit /\ [][TypeNext]_vars

(***************************************************************************)
(* Run-time values.  A number is held directly; an object is held by       *)
(* reference, the index of the object in the heap.  The objects of the     *)
(* representation type { n: number } have the one field n.                 *)
(***************************************************************************)
Num(i) == [k |-> "num", n |-> i]

Ref(addr) == [k |-> "ref", n |-> addr]

Obj(i) == ("n" :> i)

\* x.n for a reference x (0 when x is no reference to an object with a field n)
FieldN(x, h) ==
    IF x.k = "ref" /\ x.n \in DOMAIN h /\ "n" \in DOMAIN h[x.n]
    THEN h[x.n]["n"] ELSE 0

\* a function value: the function's name, and whether an adapter around it
\* hands it its two arguments in the other order
Fn(name) == [fn |-> name, flip |-> FALSE]

NoFn == Fn("none")

\* the functions R -> R and (R, R) -> R a program lifts
UnaryFns(r) == IF r = "number" THEN {"succ", "dbl"} ELSE {"same", "fresh", "incr"}

BinaryFns(r) == IF r = "number" THEN {"add", "sub"} ELSE {"snd", "join"}

\* g(x) in heap h: the value returned and the heap afterwards
Call1(g, x, h) ==
    CASE g.fn = "succ" -> [v |-> Num(x.n + 1), h |-> h]
      [] g.fn = "dbl" -> [v |-> Num(2 * x.n), h |-> h]
      [] g.fn = "fresh" ->
            [v |-> Ref(Len(h) + 1),
             h |-> Append(h, Obj(FieldN(x, h) + 1))]
      [] g.fn = "incr" ->
            [v |-> x,
             h |-> IF x.k = "ref" /\ x.n \in DOMAIN h
                   THEN [h EXCEPT ![x.n] = Obj(FieldN(x, h) + 1)]
                   ELSE h]
      [] OTHER -> [v |-> x, h |-> h]

\* g(x, y) in heap h
Call2(g, x, y, h) ==
    LET a1 == IF g.flip THEN y ELSE x
        a2 == IF g.flip THEN x ELSE y
    IN  CASE g.fn = "add" -> [v |-> Num(a1.n + a2.n), h |-> h]
          [] g.fn = "sub" -> [v |-> Num(a1.n - a2.n), h |-> h]
          [] g.fn = "join" ->
                [v |-> Ref(Len(h) + 1),
                 h |-> Append(h, Obj(FieldN(a1, h) - FieldN(a2, h)))]
          [] OTHER -> [v |-> a2, h |-> h]

(***************************************************************************)
(* The library's run-time functions.  Each result is the value returned,   *)
(* the heap afterwards and whether the call threw.                         *)
(***************************************************************************)
\* newtype<N>(): the wrapper function, or in part_000 the object {unwrap, wrap}
newtype(r) == IF r = "part_000" THEN "object" ELSE "function"

\* faulty variants of wrap: one that clones an object, one that boxes the
\* value with a tag, one that validates its input
wrapClone(x, h) ==
    IF x.k = "ref" /\ x.n \in DOMAIN h
    THEN [v |-> Ref(Len(h) + 1), h |-> Append(h, h[x.n]), threw |-> FALSE]
    ELSE [v |-> x, h |-> h, threw |-> FALSE]

wrapBoxed(x, h) ==
    [v |-> Ref(Len(h) + 1),
     h |-> Append(h, ("tag" :> newtypeSymbol) @@ ("value" :> x)),
     threw |-> FALSE]

wrapValidated(x, h) ==
    [v |-> x, h |-> h, threw |-> (x.k = "num" /\ x.n = 0) \/ FieldN(x, h) = 0]

\* x => x as N
wrap(x, h) == [v |-> x, h |-> h, threw |-> FALSE]

\* faulty variant of unwrap: clones an object
unwrapClone(x, h) ==
    IF x.k = "ref" /\ x.n \in DOMAIN h
    THEN [v |-> Ref(Len(h) + 1), h |-> Append(h, h[x.n]), threw |-> FALSE]
    ELSE [v |-> x, h |-> h, threw |-> FALSE]

\* return x as NewtypeRepr<N>
unwrap(x, h) == [v |-> x, h |-> h, threw |-> FALSE]

\* faulty variant of liftN: returns x => x
liftNDropsF(f) == Fn("same")

\* return f as unknown as (x: N) => N
liftN(f) == f

\* faulty variant of liftN2: returns (x, y) => f(y, x)
liftN2Flipped(f) == [f EXCEPT !.flip = ~f.flip]

\* return f as unknown as (x: N, y: N) => N
liftN2(f) == f

(***************************************************************************)
(* The program.  Its newtype is  type D = Newtype<R, Tag_1>  over the      *)
(* representation rep; slots holds its values in the order they were made. *)
(*   st  the static type of the value (a type expression)                  *)
(*   v   the run-time value                                                *)
(*   op  "input" | "wrap" | "unwrap" | "liftN" | "liftN2": what made it    *)
(*   f   the function that was lifted                                      *)
(*   a, b  the slots of the arguments                                      *)
(***************************************************************************)
D == NewtypeE(RepE(rep), 1)

Cell(st, v, op, f, a, b) == [st |-> st, v |-> v, op |-> op, f |-> f, a |-> a, b |-> b]

\* whether the checker accepts the value of slot i where type T is expected
Accepts(i, T) == Assignable(Eval(rev, slots[i].st), T)

\* the outcome of a call: its value joins the program's values unless it threw
Outcome(r, cell) ==
    /\ pre' = heap
    /\ heap' = r.h
    /\ exc' = r.threw
    /\ ncalls' = ncalls + 1
    /\ slots' = IF r.threw THEN slots ELSE Append(slots, cell)

CanStep == ~exc /\ Len(slots) < MaxSlots

\* const D = newtype<D>();
MakeWrapper ==
    /\ ~exc
    /\ conv = "absent"
    /\ SatisfiesConstraint(rev, Eval(rev, D))
    /\ conv' = newtype(rev)
    /\ pre' = heap
    /\ UNCHANGED <<rev, rep, heap, slots, exc, ncalls, tq>>

\* D(x), and D.wrap(x) in part_000:  (x: NewtypeRepr<D>) => D
Wrap ==
    /\ CanStep
    /\ conv # "absent"
    /\ \E i \in DOMAIN slots :
          /\ Accepts(i, NewtypeRepr(rev, Eval(rev, D)))
          /\ Outcome(wrap(slots[i].v, heap),
                     Cell(D, wrap(slots[i].v, heap).v, "wrap", NoFn, i, 0))
    /\ UNCHANGED <<rev, rep, conv, tq>>

\* unwrap(x) with N inferred from x, and D.unwrap(x) in part_000:
\* (x: N) => NewtypeRepr<N>
Unwrap ==
    /\ CanStep
    /\ rev = "part_000" => conv # "absent"
    /\ \E i \in DOMAIN slots :
          /\ IF rev = "part_000"
             THEN Accepts(i, Eval(rev, D))
             ELSE SatisfiesConstraint(rev, Eval(rev, slots[i].st))
          /\ slots[i].st.e = "newtype"
          /\ Outcome(unwrap(slots[i].v, heap),
                     Cell(slots[i].st.r, unwrap(slots[i].v, heap).v,
                          "unwrap", NoFn, i, 0))
    /\ UNCHANGED <<rev, rep, conv, tq>>

\* liftN<D>(f)(x)
ApplyLiftN ==
    /\ CanStep
    /\ \E i \in DOMAIN slots :
          /\ Accepts(i, Eval(rev, D))
          /\ \E name \in UnaryFns(rep) :
                LET r == Call1(liftN(Fn(name)), slots[i].v, heap)
                IN  Outcome([v |-> r.v, h |-> r.h, threw |-> FALSE],
                            Cell(D, r.v, "liftN", Fn(name), i, 0))
    /\ UNCHANGED <<rev, rep, conv, tq>>

\* liftN2<D>(f)(x, y)
ApplyLiftN2 ==
    /\ CanStep
    /\ \E i \in DOMAIN slots :
          /\ Accepts(i, Eval(rev, D))
          /\ \E j \in DOMAIN slots :
                /\ Accepts(j, Eval(rev, D))
                /\ \E name \in BinaryFns(rep) :
                      LET r == Call2(liftN2(Fn(name)), slots[i].v, slots[j].v, heap)
                      IN  Outcome([v |-> r.v, h |-> r.h, threw |-> FALSE],
                                  Cell(D, r.v, "liftN2", Fn(name), i, j))
    /\ UNCHANGED <<rev, rep, conv, tq>>

\* the program starts with two values of the representation type
Init ==
    /\ rev \in Revs
    /\ rep \in {"number", "{n}"}
    /\ conv = "absent"
    /\ \E x \in 0 .. MaxInput, y \in 0 .. MaxInput :
          IF rep = "number"
          THEN /\ heap = <<>>
               /\ slots = <<Cell(RepE(rep), Num(x), "input", NoFn, 0, 0),
                            Cell(RepE(rep), Num(y), "input", NoFn, 0, 0)>>
          ELSE /\ heap = <<Obj(x), Obj(y)>>
               /\ slots = <<Cell(RepE(rep), Ref(1), "input", NoFn, 0, 0),
                            Cell(RepE(rep), Ref(2), "input", NoFn, 0, 0)>>
    /\ pre = heap
    /\ exc = FALSE
    /\ ncalls = 0
    /\ tq = NoQuery

Next == MakeWrapper \/ Wrap \/ Unwrap \/ ApplyLiftN \/ ApplyLiftN2

Spec == Init /\ [][Next]_vars

(***************************************************************************)
(* Properties of the run-time functions (checked under Spec).              *)
(***************************************************************************)
LastCell == slots[Len(slots)]

\* the value a slot of the newtype was wrapped from
WrappedFrom(i) == slots[slots[i].a].v

\* C1: round trip.  Unwrapping a wrapped value gives the value that was
\* wrapped, unwrap(wrap(v)) = v, and neither call allocates or copies: the
\* heap after a wrap or an unwrap is the heap before it.
C1_RoundTrip ==
    /\ \A i \in DOMAIN slots :
          slots[i].op = "unwrap" /\ slots[slots[i].a].op = "wrap" =>
              slots[i].v = WrappedFrom(slots[i].a)
    /\ LastCell.op \in {"wrap", "unwrap"} => heap = pre

C1_Witness ==
    /\ LastCell.op = "unwrap"
    /\ slots[LastCell.a].op = "wrap"
    /\ LastCell.v = Ref(2)
    /\ Len(heap) = 2

\* C2: identity preservation.  Wrapping a reference gives the very same
\* reference: not a reference to a clone, not a reference to an object that
\* holds the value.
C2_IdentityPreserved ==
    \A i \in DOMAIN slots :
        slots[i].op = "wrap" /\ WrappedFrom(i).k = "ref" =>
            /\ slots[i].v.k = "ref"
            /\ slots[i].v.n = WrappedFrom(i).n

C2_Witness ==
    /\ rep = "{n}"
    /\ LastCell.op = "wrap"
    /\ LastCell.v = Ref(1)

\* C3: lift, arity 1.  liftN(f)(wrap(v)) = wrap(f(v)): the value returned and
\* the heap left behind by the lifted call on a wrapped v are those of
\* wrapping f(v); the same holds of every argument of the newtype, read
\* through unwrap.
C3_LiftN ==
    LastCell.op = "liftN" =>
        LET arg == slots[LastCell.a]
            onUnwrapped == Call1(LastCell.f, unwrap(arg.v, pre).v, pre)
            onOrigin == Call1(LastCell.f, WrappedFrom(LastCell.a), pre)
        IN  /\ LastCell.v = wrap(onUnwrapped.v, onUnwrapped.h).v
            /\ heap = wrap(onUnwrapped.v, onUnwrapped.h).h
            /\ arg.op = "wrap" =>
                  /\ LastCell.v = wrap(onOrigin.v, onOrigin.h).v
                  /\ heap = wrap(onOrigin.v, onOrigin.h).h

C3_Witness ==
    /\ LastCell.op = "liftN"
    /\ slots[LastCell.a].op = "wrap"
    /\ LastCell.f = Fn("succ")
    /\ WrappedFrom(LastCell.a) = Num(2)
    /\ LastCell.v = Num(3)

\* C4: lift, arity 2.  liftN2(f)(wrap(v1), wrap(v2)) = wrap(f(v1, v2)), the
\* arguments reaching f in the order given; liftN2(add)(wrap(2), wrap(3)) is
\* wrap(5).
C4_LiftN2 ==
    LastCell.op = "liftN2" =>
        LET x == slots[LastCell.a]
            y == slots[LastCell.b]
            onOrigin == Call2(LastCell.f, WrappedFrom(LastCell.a),
                              WrappedFrom(LastCell.b), pre)
        IN  x.op = "wrap" /\ y.op = "wrap" =>
                /\ LastCell.v = wrap(onOrigin.v, onOrigin.h).v
                /\ heap = wrap(onOrigin.v, onOrigin.h).h
                /\ (LastCell.f = Fn("add") /\ WrappedFrom(LastCell.a) = Num(2)
                       /\ WrappedFrom(LastCell.b) = Num(3)) => LastCell.v = Num(5)
                /\ LastCell.f = Fn("sub") =>
                       LastCell.v = Num(WrappedFrom(LastCell.a).n - WrappedFrom(LastCell.b).n)

C4_Witness ==
    /\ LastCell.op = "liftN2"
    /\ LastCell.f = Fn("add")
    /\ slots[LastCell.a].op = "wrap" /\ WrappedFrom(LastCell.a) = Num(2)
    /\ slots[LastCell.b].op = "wrap" /\ WrappedFrom(LastCell.b) = Num(3)
    /\ LastCell.v = Num(5)

\* the run-time values of the representation type rep in heap h
IsReprValue(x, h) ==
    IF rep = "number" THEN x.k = "num" /\ x.n \in Int
    ELSE x.k = "ref" /\ x.n \in DOMAIN h /\ DOMAIN h[x.n] = {"n"}

\* C8: data-model invariant.  After any sequence of wrap, unwrap and lifted
\* calls, every value held at the newtype is a value of the representation
\* type, and the heap holds only objects of the representation type: no
\* wrapper object, no tag stored with a value.
C8_DataModel ==
    /\ \A i \in DOMAIN slots :
          slots[i].st = D => IsReprValue(slots[i].v, heap)
    /\ \A addr \in DOMAIN heap : DOMAIN heap[addr] = {"n"}

C8_Witness ==
    /\ Len(slots) = MaxSlots
    /\ rep = "{n}"
    /\ LastCell.op = "liftN2" /\ LastCell.f = Fn("join")
    /\ slots[LastCell.a].op = "liftN"
    /\ slots[LastCell.b].op = "wrap"

\* C9: no run-time failure.  wrap, unwrap and the lifted functions return
\* for every input: no call of the library throws, whatever value it is
\* given (0 and an object whose field is 0 included), and every call made
\* has returned a value to the program.
C9_Total ==
    /\ ~exc
    /\ Len(slots) = 2 + ncalls

C9_Witness ==
    /\ ~exc
    /\ LastCell.op = "unwrap"
    /\ slots[LastCell.a].op = "wrap"
    /\ FieldN(LastCell.v, heap) = 0 /\ (rep = "number" => LastCell.v = Num(0))
    /\ \E i \in DOMAIN slots : slots[i].op = "liftN"

(***************************************************************************)
(* Properties of the types (checked under TypeSpec).                       *)
(***************************************************************************)
\* d is written Newtype<r, Tag_u> for the type expression r
IsNewtypeOver(d, r) == d.e = "newtype" /\ d.r = r

\* whether Tag_u occurs in the type expression x
RECURSIVE UsesTag(_, _)
UsesTag(x, u) ==
    CASE x.e = "rep" -> FALSE
      [] x.e = "newtype" -> x.u = u \/ UsesTag(x.r, u)
      [] x.e = "ext" -> x.u = u \/ UsesTag(x.b, u)

\* representation types with a shape of their own: a primitive, an object
\* type with a required property, a newtype over one of these
RECURSIVE IsProperRepr(_)
IsProperRepr(x) ==
    CASE x.e = "rep" -> x.r \in {"number", "string", "{n}"}
      [] x.e = "newtype" -> IsProperRepr(x.r)
      [] OTHER -> FALSE

C6_TagsDistinct ==
    (/\ tq.kind = "assign"
     /\ tq.src.e = "newtype" /\ tq.dst.e = "newtype"
     /\ tq.src.r = tq.dst.r
     /\ tq.src.u # tq.dst.u) => ~tq.ok

C6_Witness ==
    /\ tq.kind = "assign"
    /\ tq.src = NewtypeE(RepE("number"), 1)
    /\ tq.dst = NewtypeE(RepE("number"), 2)
    /\ ~tq.ok

\* C7: extension is one-directional.  With B = Newtype<R, U2> & A, A a
\* newtype over R and U2 a tag A does not use, B is accepted where A is
\* expected and A is rejected where B is expected.
C7_Extension ==
    tq.kind = "assign" =>
        /\ (tq.src.e = "ext" /\ tq.dst = tq.src.b /\ ~UsesTag(tq.dst, tq.src.u))
               => tq.ok
        /\ (tq.dst.e = "ext" /\ tq.src = tq.dst.b /\ ~UsesTag(tq.src, tq.dst.u))
               => ~tq.ok

C7_Witness ==
    /\ tq.kind = "assign"
    /\ tq.src = NewtypeE(RepE("number"), 1)
    /\ tq.dst = ExtE(2, NewtypeE(RepE("number"), 1))
    /\ ~tq.ok

=============================================================================
